---- MODULE Spec2Model ----
(***************************************************************************)
(* Drone delivery planner: grid router (A-star), sequencer, CSP assignment *)
(* solver, world model (Drone, Delivery, NoFlyZone) and simulator tick.    *)
(*                                                                         *)
(* Numbers.  The program computes with floats.  Here a coordinate is an    *)
(* integer count of 1/Unit of a program coordinate, and every other real   *)
(* (distance, cost, penalty, battery) is an integer count of 1/Scale,      *)
(* rounded down.  Times are integer minutes.                               *)
(***************************************************************************)
EXTENDS Integers, Sequences, FiniteSets, TLC

\* ------------------------------------------------------------------ bounds
\* coordinate steps per 1.0 of a program coordinate
Unit == 2
\* fixed-point steps per 1.0 of a program real
Scale == 100
\* side of the square grid, in program coordinates (the GUI builds 100 x 100)
GridSize == 4
\* simulator ticks after which the clock is no longer advanced
MaxTicks == 3
\* runs of the CSP planner after which it is no longer run
MaxRuns == 2
\* passes of the router's loop evaluated in one batch
Passes == 16
\* most entries of one list of a scenario document
MaxEntries == 2
\* most drones and most deliveries of a CSP scenario
MaxDrones == 2
MaxDeliveries == 3

\* --------------------------------------------------------- program constants
\* AStarRouter.resolution default
resolution == 1
\* float('inf') of NoFlyZone.get_penalty, kept apart from every finite penalty
Inf == -1
\* minutes added to current_time by one tick
TickMinutes == 5

\* None of an Optional[str], of an Optional[datetime], of came_from
None == "None"
NoTime == -1
NoPos == <<>>

\* a program length as a coordinate / as a fixed-point real
Coord(r) == r * Unit
Real(r) == r * Scale

\* ------------------------------------------------------------------ helpers
Min2(a, b) == IF a <= b THEN a ELSE b
Max2(a, b) == IF a >= b THEN a ELSE b

\* F applied to the value of e, with e evaluated once (a local variable)
Bind(e, F(_)) == CHOOSE r \in {F(x) : x \in {e}} : TRUE

RECURSIVE ISqrtIter(_, _, _)
ISqrtIter(n, lo, hi) ==
    IF lo >= hi THEN lo
    ELSE LET mid == (lo + hi + 1) \div 2
         IN IF mid * mid <= n THEN ISqrtIter(n, mid, hi)
            ELSE ISqrtIter(n, lo, mid - 1)

\* floor of the square root
ISqrt(n) == ISqrtIter(n, 0, Min2(n, 40000))

\* largest squared coordinate distance between two points of the grid
MaxD2 == 2 * Coord(GridSize) * Coord(GridSize)

\* sqrt(d2) as a fixed-point real, for d2 a squared coordinate distance
SqrtTable == [d2 \in 0..MaxD2 |-> ISqrt(d2 * Scale * Scale) \div Unit]

\* AStarRouter._heuristic: Euclidean distance
Heuristic(a, b) ==
    SqrtTable[(b[1] - a[1]) * (b[1] - a[1]) + (b[2] - a[2]) * (b[2] - a[2])]

\* ------------------------------------------------------------------ zone.py
\* The zones of the model are axis-parallel rectangles, given like any polygon
\* by their vertex list; RectOf is the shape built from the vertices.
RectOf(coords) ==
    [x1 |-> Min2(Min2(coords[1][1], coords[2][1]), Min2(coords[3][1], coords[4][1])),
     x2 |-> Max2(Max2(coords[1][1], coords[2][1]), Max2(coords[3][1], coords[4][1])),
     y1 |-> Min2(Min2(coords[1][2], coords[2][2]), Min2(coords[3][2], coords[4][2])),
     y2 |-> Max2(Max2(coords[1][2], coords[2][2]), Max2(coords[3][2], coords[4][2]))]

\* NoFlyZone(...): the dataclass and its __post_init__
NoFlyZone(id, coords, t1, t2) ==
    [id |-> id, polygon_coordinates |-> coords,
     active_time_start |-> t1, active_time_end |-> t2]

\* NoFlyZone.is_active
IsActive(zone, current_time) ==
    zone.active_time_start <= current_time /\ current_time <= zone.active_time_end

\* Polygon.contains(Point): strictly inside, the boundary is outside
ContainsPoint(zone, p) ==
    LET r == RectOf(zone.polygon_coordinates)
    IN r.x1 < p[1] /\ p[1] < r.x2 /\ r.y1 < p[2] /\ p[2] < r.y2

\* Point.distance(polygon), squared and in coordinates: 0 inside and on the edge
PolygonDistance2(zone, p) ==
    LET r == RectOf(zone.polygon_coordinates)
        dx == Max2(Max2(r.x1 - p[1], p[1] - r.x2), 0)
        dy == Max2(Max2(r.y1 - p[2], p[2] - r.y2), 0)
    IN dx * dx + dy * dy

\* NoFlyZone.get_penalty
GetPenalty(zone, p, current_time) ==
    IF ~IsActive(zone, current_time) THEN 0
    ELSE IF ContainsPoint(zone, p) THEN Inf
    ELSE LET d2 == PolygonDistance2(zone, p)
         IN IF d2 < Coord(1) * Coord(1)
            THEN (1000 * Scale * Scale * 10) \div (10 * SqrtTable[d2] + Scale)
            ELSE 0

\* ----------------------------------------------------------------- drone.py
\* Drone(...) with the defaults of __post_init__
Drone(id, max_weight, battery_capacity, speed, start_position) ==
    [id |-> id, max_weight |-> max_weight, battery_capacity |-> battery_capacity,
     speed |-> speed, start_position |-> start_position,
     current_position |-> start_position,
     current_battery |-> battery_capacity,
     current_weight |-> 0,
     route |-> <<start_position>>]

\* Drone.can_carry
CanCarry(drone, weight) == drone.current_weight + weight <= drone.max_weight

\* (distance / speed) * (1 + 0.1 * current_weight)
Consumption(drone, distance) ==
    (distance * (10 + drone.current_weight)) \div (10 * drone.speed)

\* update_position that does not record the position in the route
UpdatePositionNoAppend(drone, new_position, distance) ==
    [drone EXCEPT !.current_position = new_position,
                  !.current_battery = drone.current_battery - Consumption(drone, distance)]

\* Drone.update_position
UpdatePosition(drone, new_position, distance) ==
    [drone EXCEPT !.current_position = new_position,
                  !.route = Append(drone.route, new_position),
                  !.current_battery = drone.current_battery - Consumption(drone, distance)]

\* Drone.has_sufficient_battery: current_battery >= estimated consumption,
\* compared without rounding
HasSufficientBattery(drone, required_distance) ==
    drone.current_battery * 10 * drone.speed
        >= required_distance * (10 + drone.current_weight)

\* a reset that leaves the battery as it is
ResetKeepsBattery(drone) ==
    [drone EXCEPT !.current_position = drone.start_position,
                  !.current_weight = 0,
                  !.route = <<drone.start_position>>]

\* Drone.reset
Reset(drone) ==
    [drone EXCEPT !.current_position = drone.start_position,
                  !.current_battery = drone.battery_capacity,
                  !.current_weight = 0,
                  !.route = <<drone.start_position>>]

\* --------------------------------------------------------------- routing.py
\* the eight moves in the order of _get_neighbors
Moves == << <<0, 1>>, <<1, 0>>, <<0, -1>>, <<-1, 0>>,
            <<1, 1>>, <<-1, 1>>, <<1, -1>>, <<-1, -1>> >>

InGrid(p) ==
    /\ 0 <= p[1] /\ p[1] < Coord(GridSize)
    /\ 0 <= p[2] /\ p[2] < Coord(GridSize)

\* AStarRouter._get_neighbors
GetNeighbors(pos) ==
    LET cand == [i \in 1..Len(Moves) |->
                    <<pos[1] + Moves[i][1] * Coord(resolution),
                      pos[2] + Moves[i][2] * Coord(resolution)>>]
    IN SelectSeq(cand, InGrid)

RECURSIVE SumPenalty(_, _, _, _)
SumPenalty(pos, zones, current_time, i) ==
    IF i > Len(zones) THEN 0
    ELSE LET p == GetPenalty(zones[i], pos, current_time)
             rest == SumPenalty(pos, zones, current_time, i + 1)
         IN IF p = Inf \/ rest = Inf THEN Inf ELSE p + rest

\* AStarRouter._calculate_zone_penalty
CalculateZonePenalty(pos, zones, current_time) == SumPenalty(pos, zones, current_time, 1)

\* tuple order of the heap entries (priority, (x, y))
EntryLess(e, f) ==
    \/ e[1] < f[1]
    \/ e[1] = f[1] /\ e[2][1] < f[2][1]
    \/ e[1] = f[1] /\ e[2][1] = f[2][1] /\ e[2][2] < f[2][2]

\* a heap that gives out its greatest entry
HeapMax(frontier) == CHOOSE e \in frontier : \A f \in frontier \ {e} : EntryLess(f, e)

\* heapq.heappop: the least entry
HeapMin(frontier) == CHOOSE e \in frontier : \A f \in frontier \ {e} : EntryLess(e, f)

\* dict.get(key), None when absent
DictGet(d, k) == IF k \in DOMAIN d THEN d[k] ELSE NoPos

DictPut(d, k, v) == [x \in DOMAIN d \cup {k} |-> IF x = k THEN v ELSE d[x]]

\* one pass of the body of "for next_pos in self._get_neighbors(current)"
ExpandOne(st, current, next_pos, goal, drone, zones, current_time) ==
    Bind(CalculateZonePenalty(next_pos, zones, current_time), LAMBDA zone_penalty :
      IF zone_penalty = Inf THEN st
      ELSE Bind(st.cost_so_far[current] + Heuristic(current, next_pos) + zone_penalty,
                LAMBDA new_cost :
        IF ~HasSufficientBattery(drone, new_cost) THEN st
        ELSE IF next_pos \notin DOMAIN st.cost_so_far \/ new_cost < st.cost_so_far[next_pos]
        THEN [st EXCEPT
                !.frontier = st.frontier \cup
                    {<<new_cost + Heuristic(next_pos, goal), next_pos>>},
                !.cost_so_far = DictPut(st.cost_so_far, next_pos, new_cost),
                !.came_from = DictPut(st.came_from, next_pos, current)]
        ELSE st))

\* "for next_pos in self._get_neighbors(current)", neighbours i..
RECURSIVE ExpandNeighbors(_, _, _, _, _, _, _, _)
ExpandNeighbors(st, current, nbrs, i, goal, drone, zones, current_time) ==
    IF i > Len(nbrs) THEN st
    ELSE Bind(ExpandOne(st, current, nbrs[i], goal, drone, zones, current_time),
              LAMBDA st2 :
                ExpandNeighbors(st2, current, nbrs, i + 1, goal, drone, zones, current_time))

\* one pass of "while frontier"; running becomes FALSE when the loop ends, at
\* an empty heap or at the break
AStarPass(st, goal, drone, zones, current_time) ==
    IF st.frontier = {} THEN [st EXCEPT !.running = FALSE]
    ELSE Bind(HeapMin(st.frontier), LAMBDA e :
           IF Heuristic(e[2], goal) < Real(resolution)
           THEN [st EXCEPT !.frontier = st.frontier \ {e}, !.running = FALSE]
           ELSE ExpandNeighbors([st EXCEPT !.frontier = st.frontier \ {e}], e[2],
                                GetNeighbors(e[2]), 1, goal, drone, zones, current_time))

\* up to n passes of the loop, split in halves to keep the evaluation shallow
RECURSIVE AStarPasses(_, _, _, _, _, _)
AStarPasses(st, n, goal, drone, zones, current_time) ==
    IF n <= 1 THEN AStarPass(st, goal, drone, zones, current_time)
    ELSE Bind(AStarPasses(st, n \div 2, goal, drone, zones, current_time), LAMBDA half :
           IF half.running
           THEN AStarPasses(half, n - n \div 2, goal, drone, zones, current_time)
           ELSE half)

\* the "while frontier" loop of find_path, run until it ends
RECURSIVE AStarLoop(_, _, _, _, _)
AStarLoop(st, goal, drone, zones, current_time) ==
    Bind(AStarPasses(st, Passes, goal, drone, zones, current_time), LAMBDA r :
      IF r.running THEN AStarLoop(r, goal, drone, zones, current_time) ELSE r)

\* "while current is not None: path.append(current) ..." followed by reverse()
RECURSIVE ReconstructPath(_, _)
ReconstructPath(came_from, current) ==
    IF current = NoPos THEN <<>>
    ELSE ReconstructPath(came_from, DictGet(came_from, current)) \o <<current>>

\* find_path returning whatever the reconstruction holds
ReturnPathUnchecked(path, start) == path

\* "return path if path[0] == start else []"
ReturnPath(path, start) == IF path[1] = start THEN path ELSE <<>>

\* AStarRouter.find_path
FindPath(start, goal, drone, zones, current_time) ==
    Bind(<<start, goal, drone, zones>>, LAMBDA a :
      Bind(AStarLoop([frontier |-> {<<0, a[1]>>},
                      came_from |-> (a[1] :> NoPos),
                      cost_so_far |-> (a[1] :> 0),
                      running |-> TRUE],
                     a[2], a[3], a[4], current_time),
           LAMBDA st : ReturnPath(ReconstructPath(st.came_from, a[2]), a[1])))

\* -------------------------------------------------------------- delivery.py
\* Delivery(...) with the dataclass defaults
Delivery(id, position, weight, priority, time_window_start, time_window_end) ==
    [id |-> id, position |-> position, weight |-> weight, priority |-> priority,
     time_window_start |-> time_window_start, time_window_end |-> time_window_end,
     assigned_drone |-> None, status |-> "pending", actual_delivery_time |-> NoTime]

\* a window test that leaves out the two bounds
IsWithinTimeWindowOpen(delivery, t) ==
    delivery.time_window_start < t /\ t < delivery.time_window_end

\* Delivery.is_within_time_window
IsWithinTimeWindow(delivery, t) ==
    delivery.time_window_start <= t /\ t <= delivery.time_window_end

\* Delivery.assign_to_drone
AssignToDrone(delivery, drone_id) ==
    [delivery EXCEPT !.assigned_drone = drone_id, !.status = "in_progress"]

\* Delivery.complete_delivery
CompleteDelivery(delivery, delivery_time) ==
    [delivery EXCEPT !.status = "completed", !.actual_delivery_time = delivery_time]

\* fail_delivery that leaves the drone link in place
FailDeliveryKeepsDrone(delivery) == [delivery EXCEPT !.status = "failed"]

\* Delivery.fail_delivery
FailDelivery(delivery) ==
    [delivery EXCEPT !.status = "failed", !.assigned_drone = None]

\* ------------------------------------------------ routing.py, RouteOptimizer
\* sorted(deliveries, key=(priority, time_window_start)): the indices of the
\* deliveries in sorted order, equal keys keeping their input order
KeyLessByStartOnly(a, b) == a.time_window_start < b.time_window_start

KeyLess(a, b) ==
    \/ a.priority < b.priority
    \/ a.priority = b.priority /\ a.time_window_start < b.time_window_start

RECURSIVE InsertSorted(_, _, _)
InsertSorted(sorted, dels, i) ==
    IF sorted = <<>> THEN <<i>>
    ELSE IF KeyLess(dels[i], dels[Head(sorted)]) THEN <<i>> \o sorted
    ELSE <<Head(sorted)>> \o InsertSorted(Tail(sorted), dels, i)

RECURSIVE SortedFrom(_, _, _)
SortedFrom(sorted, dels, i) ==
    IF i > Len(dels) THEN sorted
    ELSE SortedFrom(InsertSorted(sorted, dels, i), dels, i + 1)

SortedDeliveries(dels) == SortedFrom(<<>>, dels, 1)

\* sum of the segment lengths of a path
RECURSIVE TotalDistance(_, _)
TotalDistance(path, i) ==
    IF i >= Len(path) THEN 0
    ELSE Heuristic(path[i], path[i + 1]) + TotalDistance(path, i + 1)

\* one pass of the "for delivery in sorted_deliveries" loop; acc holds
\* optimized_sequence, current_pos and remaining_battery
SequenceOne(acc, i, drone, dels, zs, t) ==
    IF ~IsWithinTimeWindow(dels[i], t) THEN acc
    ELSE Bind(FindPath(acc.current_pos, dels[i].position, drone, zs, t), LAMBDA path :
      IF path = <<>> THEN acc
      ELSE Bind(TotalDistance(path, 1), LAMBDA total_distance :
        IF CanCarry(drone, dels[i].weight) /\ HasSufficientBattery(drone, total_distance)
        THEN [optimized_sequence |-> Append(acc.optimized_sequence, i),
              current_pos |-> dels[i].position,
              remaining_battery |-> acc.remaining_battery - total_distance]
        ELSE acc))

\* the "for delivery in sorted_deliveries" loop of optimize_delivery_sequence
RECURSIVE SequenceLoop(_, _, _, _, _, _, _)
SequenceLoop(acc, sorted, k, drone, dels, zs, t) ==
    IF k > Len(sorted) THEN acc
    ELSE Bind(SequenceOne(acc, sorted[k], drone, dels, zs, t), LAMBDA acc2 :
           SequenceLoop(acc2, sorted, k + 1, drone, dels, zs, t))

\* RouteOptimizer.optimize_delivery_sequence: the accepted deliveries, as their
\* indices in dels, in the order of acceptance
OptimizeDeliverySequence(drone, dels, zs, t) ==
    Bind(SortedDeliveries(dels), LAMBDA sorted_deliveries :
      SequenceLoop([optimized_sequence |-> <<>>,
                    current_pos |-> drone.current_position,
                    remaining_battery |-> drone.current_battery],
                   sorted_deliveries, 1, drone, dels, zs, t).optimized_sequence)

\* ------------------------------------------------------------- optimizer.py
\* CSPOptimizer.__init__: the attributes a CSPOptimizer object has
CSPOptimizer == [domains |-> <<>>, constraints |-> <<>>]

\* the entry of seq (of records with an id) whose id is the given one
ById(seq, id) == seq[CHOOSE i \in 1..Len(seq) : seq[i].id = id]

\* the keys of assignment in the order of the dict: the order of self.domains
AssignedVars(self, assignment) ==
    SelectSeq([i \in 1..Len(self.domains) |-> self.domains[i].var],
              LAMBDA v : v \in DOMAIN assignment)

\* the loop of _weight_constraint over assignment.items(), from item k on
RECURSIVE WeightLoop(_, _, _, _, _)
WeightLoop(self, assignment, keys, k, drone_weights) ==
    IF k > Len(keys) THEN "true"
    ELSE LET delivery == ById(self.deliveries, keys[k])
             drone == ById(self.drones, assignment[keys[k]])
             w == (IF drone.id \in DOMAIN drone_weights
                   THEN drone_weights[drone.id] ELSE 0) + delivery.weight
         IN IF w > drone.max_weight THEN "false"
            ELSE WeightLoop(self, assignment, keys, k + 1,
                            [x \in DOMAIN drone_weights \cup {drone.id} |->
                                IF x = drone.id THEN w ELSE drone_weights[x]])

\* a weight constraint that is a stub like the other two
WeightConstraintStub(self, assignment) == "true"

\* CSPOptimizer._weight_constraint: "true", "false", or "fault" when reading
\* self.deliveries / self.drones raises AttributeError
WeightConstraint(self, assignment) ==
    IF DOMAIN assignment = {} THEN "true"
    ELSE IF ~({"deliveries", "drones"} \subseteq DOMAIN self) THEN "fault"
    ELSE WeightLoop(self, assignment, AssignedVars(self, assignment), 1, <<>>)

\* CSPOptimizer._time_window_constraint
TimeWindowConstraint(self, assignment) == "true"

\* CSPOptimizer._battery_constraint
BatteryConstraint(self, assignment) == "true"

Constraint(name, self, assignment) ==
    CASE name = "_weight_constraint" -> WeightConstraint(self, assignment)
      [] name = "_time_window_constraint" -> TimeWindowConstraint(self, assignment)
      [] name = "_battery_constraint" -> BatteryConstraint(self, assignment)

\* CSPOptimizer.is_consistent: all(...) over self.constraints, left to right
RECURSIVE IsConsistentFrom(_, _, _)
IsConsistentFrom(self, assignment, k) ==
    IF k > Len(self.constraints) THEN "true"
    ELSE LET c == Constraint(self.constraints[k], self, assignment)
         IN IF c = "true" THEN IsConsistentFrom(self, assignment, k + 1) ELSE c

IsConsistent(self, assignment) == IsConsistentFrom(self, assignment, 1)

\* what a call produces: a mapping, None, or an exception
Returned(m) == [kind |-> "mapping", map |-> m]
ReturnedNone == [kind |-> "none", map |-> <<>>]
Raised == [kind |-> "fault", map |-> <<>>]

\* "assignment[unassigned] = value": the dict with the key set
SetItem(assignment, var, value) ==
    [x \in DOMAIN assignment \cup {var} |-> IF x = var THEN value ELSE assignment[x]]

\* a backtracking step that leaves the tried value in the dict
DelItemKeeps(assignment, var) == assignment

\* "del assignment[unassigned]": the dict without the key
DelItem(assignment, var) == [x \in DOMAIN assignment \ {var} |-> assignment[x]]

\* CSPOptimizer._backtracking_search; TryValues is its "for value in ..." loop.
\* The dict assignment is changed in place, so both give the outcome of the
\* call together with the dict as the call leaves it.
RECURSIVE BacktrackingSearch(_, _)
RECURSIVE TryValues(_, _, _, _)
BacktrackingSearch(self, assignment) ==
    IF Cardinality(DOMAIN assignment) = Len(self.domains)
    THEN [result |-> Returned(assignment), assignment |-> assignment]
    ELSE LET unassigned ==
                 CHOOSE i \in 1..Len(self.domains) :
                    /\ self.domains[i].var \notin DOMAIN assignment
                    /\ \A j \in 1..(i - 1) : self.domains[j].var \in DOMAIN assignment
         IN TryValues(self, assignment, unassigned, 1)

TryValues(self, assignment, unassigned, k) ==
    IF k > Len(self.domains[unassigned].values)
    THEN [result |-> ReturnedNone, assignment |-> assignment]
    ELSE LET var == self.domains[unassigned].var
             tried == SetItem(assignment, var, self.domains[unassigned].values[k])
             c == IsConsistent(self, tried)
         IN IF c = "fault" THEN [result |-> Raised, assignment |-> tried]
            ELSE IF c = "true"
            THEN LET r == BacktrackingSearch(self, tried)
                 IN IF r.result.kind # "none" THEN r
                    ELSE TryValues(self, DelItem(r.assignment, var), unassigned, k + 1)
            ELSE TryValues(self, DelItem(tried, var), unassigned, k + 1)

\* CSPOptimizer.optimize on the optimizer object self; assignment is the dict
\* that optimize created, as the search leaves it
Optimize(self, drs, dels) ==
    LET ids == [i \in 1..Len(drs) |-> drs[i].id]
        self2 == [self EXCEPT
                    !.domains = [i \in 1..Len(dels) |-> [var |-> dels[i].id, values |-> ids]],
                    !.constraints = self.constraints \o
                        <<"_weight_constraint", "_time_window_constraint",
                          "_battery_constraint">>]
        r == BacktrackingSearch(self2, <<>>)
    IN [self |-> self2, result |-> r.result, assignment |-> r.assignment]

\* GAOptimizer.__init__: the lists the optimizer keeps
GAOptimizer(drs, dels, zs) == [drones |-> drs, deliveries |-> dels, zones |-> zs]

\* the position in drs of the drone with the given id
IndexOfId(drs, id) == CHOOSE j \in 1..Len(drs) : drs[j].id = id

\* "any(zone.contains_point(delivery.position) for zone in self.zones)"
InAnyZone(zs, p) == \E k \in 1..Len(zs) : ContainsPoint(zs[k], p)

\* the score of _evaluate_fitness in 1/(100 * Scale):
\* 100 * completed - 0.1 * energy_usage - 1000 * violations, with energy10
\* the energy in 1/(10 * Scale)
Fitness(completed, energy10, violations) ==
    100 * completed * 100 * Scale - energy10 - 1000 * violations * 100 * Scale

\* "for delivery_idx, drone_id in enumerate(individual)" of _evaluate_fitness
\* from gene k on; m holds the counters and drone_states (weight, battery in
\* 1/(10 * Scale), current_pos per drone); self.deliveries[delivery_idx] and
\* self.drones[delivery_idx] with no such entry raise IndexError, and
\* drone_states[drone_id] with no such drone raises KeyError
RECURSIVE FitnessLoop(_, _, _, _)
FitnessLoop(self, individual, k, m) ==
    IF k > Len(individual) THEN m
    ELSE IF \/ k > Len(self.deliveries)
            \/ \A j \in 1..Len(self.drones) : self.drones[j].id # individual[k]
            \/ k > Len(self.drones)
    THEN [m EXCEPT !.kind = "fault"]
    ELSE LET delivery == self.deliveries[k]
             j == IndexOfId(self.drones, individual[k])
             drone_state == m.drone_states[j]
             distance == Heuristic(drone_state.current_pos, delivery.position)
             energy10 == distance * (10 + drone_state.weight)
         IN IF \/ drone_state.weight + delivery.weight > self.drones[k].max_weight
               \/ energy10 > drone_state.battery10
               \/ InAnyZone(self.zones, delivery.position)
            THEN FitnessLoop(self, individual, k + 1,
                             [m EXCEPT !.violations = @ + 1])
            ELSE FitnessLoop(self, individual, k + 1,
                   [m EXCEPT !.completed = @ + 1,
                             !.energy10 = @ + energy10,
                             !.drone_states[j] =
                                 [current_pos |-> delivery.position,
                                  battery10 |-> drone_state.battery10 - energy10,
                                  weight |-> drone_state.weight + delivery.weight]])

\* GAOptimizer._evaluate_fitness: the counters and the score, or a fault
EvaluateFitness(self, individual) ==
    LET m == FitnessLoop(self, individual, 1,
               [kind |-> "score", completed |-> 0, energy10 |-> 0, violations |-> 0,
                drone_states |->
                    [j \in 1..Len(self.drones) |->
                        [current_pos |-> self.drones[j].start_position,
                         battery10 |-> self.drones[j].battery_capacity * 10,
                         weight |-> 0]]])
    IN [kind |-> m.kind, completed |-> m.completed, energy10 |-> m.energy10,
        violations |-> m.violations,
        fitness |-> Fitness(m.completed, m.energy10, m.violations)]

\* GAOptimizer._setup_genetic_algorithm: what the toolbox takes from the lists
\* when the optimizer is built, the drone ids that attr_drone draws from and
\* the number n of genes of an individual
SetupGeneticAlgorithm(drs, dels) ==
    [made |-> TRUE, attr_drone |-> [j \in 1..Len(drs) |-> drs[j].id], n |-> Len(dels)]

\* toolbox.individual: the chromosomes initRepeat can draw, n genes each drawn
\* by random.choice from attr_drone; none when there is nothing to choose from
Individuals(toolbox) ==
    [1..toolbox.n -> {toolbox.attr_drone[j] : j \in 1..Len(toolbox.attr_drone)}]

\* GAOptimizer.optimize: the outcomes the random search can have. Crossover and
\* mutation exchange and reorder genes of individuals, so every individual of
\* every generation is one that toolbox.individual can draw, and any of them
\* can be the best of the last generation. The call raises when no individual
\* can be drawn, when _evaluate_fitness raises on an individual, and when
\* cxTwoPoint or mutShuffleIndexes draws a cut point in a chromosome of fewer
\* than two genes.
GaOptimize(self, toolbox) ==
    LET inds == Individuals(toolbox)
        sound == {c \in inds : EvaluateFitness(self, c).kind # "fault"}
    IN {[kind |-> "returned", best_solution |-> c] : c \in sound}
       \cup (IF inds = {} \/ sound # inds \/ toolbox.n <= 1
             THEN {[kind |-> "fault", best_solution |-> <<>>]}
             ELSE {})

\* -------------------------------------------------------------------- state
VARIABLES
    drones,         \* DeliverySystemGUI.drones: list of Drone
    deliveries,     \* DeliverySystemGUI.deliveries: list of Delivery
    zones,          \* DeliverySystemGUI.zones: list of NoFlyZone
    current_time,   \* DeliverySystemGUI.current_time
    fp,             \* one find_path call: its arguments, position and result
    csp,            \* one CSPOptimizer.optimize call: position and result
    call,           \* an operation called on its own: its name, arguments and outcome
    ga_optimizer    \* DeliverySystemGUI.ga_optimizer: none yet, or the GAOptimizer kept

vars == <<drones, deliveries, zones, current_time, fp, csp, call, ga_optimizer>>

NoCall == [pc |-> "none"]

\* self.ga_optimizer = None: no GAOptimizer has been built yet
NoOptimizer == [made |-> FALSE, attr_drone |-> <<>>, n |-> 0]

\* self.csp_optimizer = CSPOptimizer(), not yet run
CspInit == [self |-> CSPOptimizer, result |-> [kind |-> "not_run", map |-> <<>>], runs |-> 0]

\* ------------------------------------------------------------------ main.py
\* "for pos in path[1:]: drone.update_position(pos, _heuristic(current_pos, pos))"
RECURSIVE CommitPath(_, _, _, _)
CommitPath(drone, path, j, current_pos) ==
    IF j > Len(path) THEN drone
    ELSE Bind(UpdatePosition(drone, path[j], Heuristic(current_pos, path[j])),
              LAMBDA moved : CommitPath(moved, path, j + 1, current_pos))

\* one pass of "for delivery in optimized_sequence" of run_astar_optimization;
\* w holds the drone, the deliveries and current_pos
CommitLeg(w, i, zs, t) ==
    Bind(FindPath(w.current_pos, w.deliveries[i].position, w.drone, zs, t), LAMBDA path :
      IF path # <<>>
      THEN [drone |-> CommitPath(w.drone, path, 2, w.current_pos),
            current_pos |-> w.deliveries[i].position,
            deliveries |-> [w.deliveries EXCEPT
                              ![i] = AssignToDrone(w.deliveries[i], w.drone.id)]]
      ELSE w)

\* "for delivery in optimized_sequence" of run_astar_optimization, entries k..
RECURSIVE CommitLegs(_, _, _, _, _)
CommitLegs(w, seq, k, zs, t) ==
    IF k > Len(seq) THEN w
    ELSE Bind(CommitLeg(w, seq[k], zs, t), LAMBDA w2 : CommitLegs(w2, seq, k + 1, zs, t))

\* the body of "for drone in self.drones" of run_astar_optimization
AStarDrone(drone0, dels, zs, t) ==
    Bind(Reset(drone0), LAMBDA drone :
      Bind(OptimizeDeliverySequence(drone, dels, zs, t), LAMBDA optimized_sequence :
        CommitLegs([drone |-> drone, current_pos |-> drone.current_position,
                    deliveries |-> dels],
                   optimized_sequence, 1, zs, t)))

\* "for drone in self.drones" of run_astar_optimization, drones i..
RECURSIVE AStarDrones(_, _, _, _, _)
AStarDrones(drs, dels, i, zs, t) ==
    IF i > Len(drs) THEN [drones |-> drs, deliveries |-> dels]
    ELSE Bind(AStarDrone(drs[i], dels, zs, t), LAMBDA w :
           AStarDrones([drs EXCEPT ![i] = w.drone], w.deliveries, i + 1, zs, t))

\* DeliverySystemGUI.run_astar_optimization
RunAStarOptimization ==
    /\ \E w \in {AStarDrones(drones, deliveries, 1, zones, current_time)} :
          /\ drones' = w.drones
          /\ deliveries' = w.deliveries
    /\ UNCHANGED <<zones, current_time, fp, csp, call, ga_optimizer>>

\* a tick that keeps the head of the route
TickDroneNoPop(drone) ==
    IF Len(drone.route) > 1
    THEN UpdatePosition(drone, drone.route[2],
                        Heuristic(drone.current_position, drone.route[2]))
    ELSE drone

\* the body of "for drone in self.drones" of update_simulation
TickDrone(drone) ==
    IF Len(drone.route) > 1
    THEN LET next_pos == drone.route[2]
             distance == Heuristic(drone.current_position, next_pos)
         IN Bind(UpdatePosition(drone, next_pos, distance), LAMBDA moved :
              [moved EXCEPT !.route = Tail(moved.route)])
    ELSE drone

\* DeliverySystemGUI.update_simulation, one timer tick
UpdateSimulation ==
    /\ current_time < MaxTicks * TickMinutes
    /\ current_time' = current_time + TickMinutes
    /\ drones' = [i \in 1..Len(drones) |-> TickDrone(drones[i])]
    /\ UNCHANGED <<deliveries, zones, fp, csp, call, ga_optimizer>>

\* the mapping's items applied by run_csp_optimization, deliveries i..
RECURSIVE AssignAll(_, _, _)
AssignAll(dels, assignment, i) ==
    IF i > Len(dels) THEN dels
    ELSE AssignAll(IF dels[i].id \in DOMAIN assignment
                   THEN [dels EXCEPT ![i] = AssignToDrone(dels[i], assignment[dels[i].id])]
                   ELSE dels,
                   assignment, i + 1)

\* DeliverySystemGUI.run_csp_optimization; an exception of optimize ends it
RunCspOptimization ==
    /\ csp.runs < MaxRuns
    /\ \E r \in {Optimize(csp.self, drones, deliveries)} :
          /\ csp' = [self |-> r.self, result |-> r.result, runs |-> csp.runs + 1]
          /\ deliveries' = IF r.result.kind = "mapping" /\ DOMAIN r.result.map # {}
                           THEN AssignAll(deliveries, r.result.map, 1)
                           ELSE deliveries
    /\ UNCHANGED <<drones, zones, current_time, fp, call, ga_optimizer>>

\* "for i, drone_id in enumerate(best_solution):
\*      self.deliveries[i].assign_to_drone(drone_id)", genes i..
RECURSIVE AssignGenes(_, _, _)
AssignGenes(dels, best_solution, i) ==
    IF i > Len(best_solution) THEN dels
    ELSE AssignGenes([dels EXCEPT ![i] = AssignToDrone(dels[i], best_solution[i])],
                     best_solution, i + 1)

\* DeliverySystemGUI.run_ga_optimization; the optimizer is built on the first
\* run and kept. Its lists are the world's own list objects, which the GUI
\* changes in place, so they are the current lists at every run; an exception
\* of optimize ends the handler.
RunGaOptimization ==
    /\ \E toolbox \in {IF ga_optimizer.made THEN ga_optimizer
                       ELSE SetupGeneticAlgorithm(drones, deliveries)} :
       \E r \in GaOptimize(GAOptimizer(drones, deliveries, zones), toolbox) :
          /\ ga_optimizer' = toolbox
          /\ deliveries' = IF r.kind = "returned"
                           THEN AssignGenes(deliveries, r.best_solution, 1)
                           ELSE deliveries
          /\ call' = [pc |-> "ga", kind |-> r.kind, best_solution |-> r.best_solution]
    /\ UNCHANGED <<drones, zones, current_time, fp, csp>>

\* DeliverySystemGUI.add_drone with the form filled in as drone
AddDrone(drone) ==
    /\ Len(drones) < MaxDrones
    /\ drones' = Append(drones, drone)
    /\ UNCHANGED <<deliveries, zones, current_time, fp, csp, call, ga_optimizer>>

\* DeliverySystemGUI.add_delivery with the form filled in as delivery
AddDelivery(delivery) ==
    /\ Len(deliveries) < MaxDeliveries
    /\ deliveries' = Append(deliveries, delivery)
    /\ UNCHANGED <<drones, zones, current_time, fp, csp, call, ga_optimizer>>

\* DeliverySystemGUI.clear_all_data
ClearAllData ==
    /\ drones' = <<>>
    /\ deliveries' = <<>>
    /\ zones' = <<>>
    /\ UNCHANGED <<current_time, fp, csp, call, ga_optimizer>>

\* ------------------------------------------------- main.py: load_test_data
\* datetime.isoformat: the text of a time, its hours and its minutes
IsoFormat(t) == <<"T", t \div 60, t % 60>>

\* the texts datetime.fromisoformat accepts; it raises ValueError on any other
IsIsoText(s) ==
    /\ DOMAIN s = 1..3
    /\ s[1] = "T"
    /\ s[3] \in 0..59

\* datetime.fromisoformat
FromIsoFormat(s) == s[2] * 60 + s[3]

\* tuple(x) and [tuple(c) for c in x]: the same elements, rebuilt one by one
TupleOf(x) == [i \in 1..Len(x) |-> x[i]]

\* the keys an entry is read by; a missing key raises KeyError
DroneKeys == {"id", "max_weight", "battery_capacity", "speed", "start_position"}
DeliveryKeys == {"id", "position", "weight", "priority",
                 "time_window_start", "time_window_end"}
ZoneKeys == {"id", "polygon_coordinates", "active_time_start", "active_time_end"}

\* "drone = Drone(id=drone_data['id'], ...)": does it raise
DroneRaises(data) == ~(DroneKeys \subseteq DOMAIN data)

DroneOf(data) ==
    Drone(data.id, data.max_weight, data.battery_capacity, data.speed,
          TupleOf(data.start_position))

\* "delivery = Delivery(id=delivery_data['id'], ...)": does it raise
DeliveryRaises(data) ==
    \/ ~(DeliveryKeys \subseteq DOMAIN data)
    \/ ~IsIsoText(data.time_window_start)
    \/ ~IsIsoText(data.time_window_end)

DeliveryOf(data) ==
    Delivery(data.id, TupleOf(data.position), data.weight, data.priority,
             FromIsoFormat(data.time_window_start), FromIsoFormat(data.time_window_end))

\* "zone = NoFlyZone(id=zone_data['id'], ...)": does it raise
ZoneRaises(data) ==
    \/ ~(ZoneKeys \subseteq DOMAIN data)
    \/ ~IsIsoText(data.active_time_start)
    \/ ~IsIsoText(data.active_time_end)

ZoneOf(data) ==
    NoFlyZone(data.id, TupleOf(data.polygon_coordinates),
              FromIsoFormat(data.active_time_start), FromIsoFormat(data.active_time_end))

\* one "for x_data in data[key]: x = X(...); self.xs.append(x)" loop from
\* entry i on, each entry given with whether its constructor call raises: the
\* list as the loop leaves it, and whether it ended by an exception
RECURSIVE LoadEntries(_, _, _)
LoadEntries(list, items, i) ==
    IF i > Len(items) THEN [list |-> list, raised |-> FALSE]
    ELSE IF items[i].raises THEN [list |-> list, raised |-> TRUE]
    ELSE LoadEntries(Append(list, items[i].value), items, i + 1)

\* data[key] for one of the three lists; a missing key raises KeyError
LoadList(data, key, Raises(_), Of(_)) ==
    IF key \notin DOMAIN data THEN [list |-> <<>>, raised |-> TRUE]
    ELSE LoadEntries(<<>>,
                     [i \in 1..Len(data[key]) |->
                        [raises |-> Raises(data[key][i]),
                         value |-> IF Raises(data[key][i]) THEN <<>> ELSE Of(data[key][i])]],
                     1)

\* the body of the try of load_test_data: the world it leaves and the message
LoadWorld(doc, world) ==
    IF doc.kind # "json"
    THEN \* open or json.load raised: nothing was touched
         [drones |-> world.drones, deliveries |-> world.deliveries,
          zones |-> world.zones, message |-> "Error"]
    ELSE \* clear_all_data, then the three loops
         LET ds == LoadList(doc.data, "drones", DroneRaises, DroneOf)
             xs == IF ds.raised THEN [list |-> <<>>, raised |-> TRUE]
                   ELSE LoadList(doc.data, "deliveries", DeliveryRaises, DeliveryOf)
             zs == IF xs.raised THEN [list |-> <<>>, raised |-> TRUE]
                   ELSE LoadList(doc.data, "no_fly_zones", ZoneRaises, ZoneOf)
         IN [drones |-> ds.list, deliveries |-> xs.list, zones |-> zs.list,
             message |-> IF zs.raised THEN "Error" ELSE "Success"]

\* DeliverySystemGUI.load_test_data on the document doc
LoadTestData(doc) ==
    /\ \E w \in {LoadWorld(doc, [drones |-> drones, deliveries |-> deliveries,
                                 zones |-> zones])} :
          /\ drones' = w.drones
          /\ deliveries' = w.deliveries
          /\ zones' = w.zones
          /\ call' = [pc |-> "load", message |-> w.message, kind |-> doc.kind,
                      before |-> <<drones, deliveries, zones>>]
    /\ UNCHANGED <<current_time, fp, csp, ga_optimizer>>

\* ------------------------------------------------- to_dict and from_dict
\* Drone.__post_init__: the defaults of the fields given as None, whose names
\* are in none
DronePostInit(d, none) ==
    [d EXCEPT !.current_position = IF "current_position" \in none
                                   THEN d.start_position ELSE @,
              !.current_battery = IF "current_battery" \in none
                                  THEN d.battery_capacity ELSE @,
              !.route = IF "route" \in none THEN <<d.start_position>> ELSE @]

\* Drone.to_dict
DroneToDict(d) ==
    [id |-> d.id, max_weight |-> d.max_weight, battery_capacity |-> d.battery_capacity,
     speed |-> d.speed, start_position |-> d.start_position,
     current_position |-> d.current_position, current_battery |-> d.current_battery,
     current_weight |-> d.current_weight, route |-> d.route]

\* a from_dict that takes the route to be the default of a new drone
DroneFromDictNoRoute(data) ==
    DronePostInit(
        [id |-> data.id, max_weight |-> data.max_weight,
         battery_capacity |-> data.battery_capacity, speed |-> data.speed,
         start_position |-> TupleOf(data.start_position),
         current_position |-> TupleOf(data.current_position),
         current_battery |-> data.current_battery,
         current_weight |-> data.current_weight,
         route |-> <<>>],
        {"route"})

\* Drone.from_dict
DroneFromDict(data) ==
    DronePostInit(
        [id |-> data.id, max_weight |-> data.max_weight,
         battery_capacity |-> data.battery_capacity, speed |-> data.speed,
         start_position |-> TupleOf(data.start_position),
         current_position |-> TupleOf(data.current_position),
         current_battery |-> data.current_battery,
         current_weight |-> data.current_weight,
         route |-> [k \in 1..Len(data.route) |-> TupleOf(data.route[k])]],
        {})

\* Delivery.to_dict; "x.isoformat() if x else None" for actual_delivery_time
DeliveryToDict(d) ==
    [id |-> d.id, position |-> d.position, weight |-> d.weight, priority |-> d.priority,
     time_window_start |-> IsoFormat(d.time_window_start),
     time_window_end |-> IsoFormat(d.time_window_end),
     assigned_drone |-> d.assigned_drone, status |-> d.status,
     actual_delivery_time |-> IF d.actual_delivery_time # NoTime
                              THEN IsoFormat(d.actual_delivery_time) ELSE None]

\* Delivery.from_dict
DeliveryFromDict(data) ==
    [id |-> data.id, position |-> TupleOf(data.position), weight |-> data.weight,
     priority |-> data.priority,
     time_window_start |-> FromIsoFormat(data.time_window_start),
     time_window_end |-> FromIsoFormat(data.time_window_end),
     assigned_drone |-> data.assigned_drone, status |-> data.status,
     actual_delivery_time |-> IF data.actual_delivery_time # None
                              THEN FromIsoFormat(data.actual_delivery_time) ELSE NoTime]

\* NoFlyZone.to_dict
ZoneToDict(z) ==
    [id |-> z.id, polygon_coordinates |-> z.polygon_coordinates,
     active_time_start |-> IsoFormat(z.active_time_start),
     active_time_end |-> IsoFormat(z.active_time_end)]

\* NoFlyZone.from_dict
ZoneFromDict(data) ==
    NoFlyZone(data.id, [k \in 1..Len(data.polygon_coordinates) |->
                          TupleOf(data.polygon_coordinates[k])],
              FromIsoFormat(data.active_time_start), FromIsoFormat(data.active_time_end))

\* ------------------------------------------------- find_path, called directly
\* the zone of the router scenarios: it holds the lattice points (4, 0), (4, 2)
ZoneA(t1, t2) == NoFlyZone("Z", << <<3, -1>>, <<3, 3>>, <<5, 3>>, <<5, -1>> >>, t1, t2)

StartSet == {<<0, 0>>, <<4, 0>>, <<1, 1>>, <<2, 4>>}
GoalSet == {<<6, 0>>, <<6, 6>>, <<5, 0>>, <<0, 0>>, <<4, 2>>, <<1, 2>>}
\* three grid steps; one step beside a zone; anything
BatterySet == {Real(3), Real(2000), Real(100000)}
\* none; ZoneA active now; ZoneA not active now
ZoneSet == {<<>>, <<ZoneA(0, 10)>>, <<ZoneA(5, 10)>>}

InitFindPath ==
    /\ \E b \in BatterySet : drones = <<Drone("D1", 10, b, 1, <<0, 0>>)>>
    /\ deliveries = <<>>
    /\ zones \in ZoneSet
    /\ current_time = 0
    /\ \E s \in StartSet, g \in GoalSet :
          fp = [pc |-> "call", start |-> s, goal |-> g, path |-> <<>>]
    /\ csp = CspInit
    /\ call = NoCall
    /\ ga_optimizer = NoOptimizer

\* path = router.find_path(start, goal, drone, zones, current_time)
CallFindPath ==
    /\ fp.pc = "call"
    /\ fp' = [fp EXCEPT !.pc = "done",
                        !.path = FindPath(fp.start, fp.goal, drones[1], zones, current_time)]
    /\ UNCHANGED <<drones, deliveries, zones, current_time, csp, call, ga_optimizer>>

NextFindPath == CallFindPath

SpecFindPath == InitFindPath /\ [][NextFindPath]_vars

\* ------------------------------------------- the CSP planner on small worlds
DroneIds == <<"D1", "D2", "D3", "D4", "D5", "D6">>
DeliveryIds == <<"X1", "X2", "X3", "X4", "X5", "X6">>
CapacitySet == {5, 10}
WeightSet == {1, 6}

\* the drone lists / delivery lists of at most n entries, ids in list order
DroneLists(n) ==
    UNION {{[i \in 1..k |-> Drone(DroneIds[i], c[i], Real(1000), 10, <<0, 0>>)] :
              c \in [1..k -> CapacitySet]} : k \in 0..n}
DeliveryLists(n) ==
    UNION {{[i \in 1..k |-> Delivery(DeliveryIds[i], <<2, 2>>, w[i], 3, 0, 60)] :
              w \in [1..k -> WeightSet]} : k \in 0..n}

InitCsp ==
    /\ drones \in DroneLists(MaxDrones)
    /\ deliveries \in DeliveryLists(MaxDeliveries)
    /\ zones = <<>>
    /\ current_time = 0
    /\ fp = NoCall
    /\ csp = CspInit
    /\ call = NoCall
    /\ ga_optimizer = NoOptimizer

NextCsp == RunCspOptimization

SpecCsp == InitCsp /\ [][NextCsp]_vars

\* ------------------------------------------ the Delivery operations on their own
CallAssignToDrone(i, drone_id) ==
    /\ deliveries' = [deliveries EXCEPT ![i] = AssignToDrone(deliveries[i], drone_id)]
    /\ UNCHANGED <<drones, zones, current_time, fp, csp, call, ga_optimizer>>

CallCompleteDelivery(i, t) ==
    /\ deliveries' = [deliveries EXCEPT ![i] = CompleteDelivery(deliveries[i], t)]
    /\ UNCHANGED <<drones, zones, current_time, fp, csp, call, ga_optimizer>>

CallFailDelivery(i) ==
    /\ deliveries' = [deliveries EXCEPT ![i] = FailDelivery(deliveries[i])]
    /\ UNCHANGED <<drones, zones, current_time, fp, csp, call, ga_optimizer>>

DeliveryTimes == {0, TickMinutes}

InitDelivery ==
    /\ drones \in {d \in DroneLists(MaxDrones) : Len(d) = MaxDrones}
    /\ deliveries = <<Delivery("X1", <<6, 0>>, 1, 1, 0, 60),
                      Delivery("X2", <<0, 4>>, 6, 5, 0, 60)>>
    /\ zones = <<>>
    /\ current_time = 0
    /\ fp = NoCall
    /\ csp = CspInit
    /\ call = NoCall
    /\ ga_optimizer = NoOptimizer

NextDelivery ==
    \/ \E i \in 1..Len(deliveries), j \in 1..Len(drones) : CallAssignToDrone(i, drones[j].id)
    \/ \E i \in 1..Len(deliveries), t \in DeliveryTimes : CallCompleteDelivery(i, t)
    \/ \E i \in 1..Len(deliveries) : CallFailDelivery(i)

SpecDelivery == InitDelivery /\ [][NextDelivery]_vars

\* ------------------------------------------- the A-star planner and the clock
\* one or two drones: the first with a battery for three grid steps or plenty
SimDrones ==
    LET firsts == {Drone("D1", 10, b, v, <<0, 0>>) : b \in {Real(3), Real(1000)}, v \in {1, 10}}
        second == Drone("D2", 10, Real(1000), 10, <<6, 6>>)
    IN {<<d>> : d \in firsts} \cup {<<d, second>> : d \in firsts}

\* one or two deliveries, the second in its window now or only later
SimDeliveries ==
    LET first == Delivery("X1", <<6, 0>>, 1, 1, 0, 60)
    IN {<<first>>} \cup
       {<<first, Delivery("X2", <<0, 4>>, 6, p, t1, 60)>> : p \in {1, 5}, t1 \in {0, 10}}

InitSim ==
    /\ drones \in SimDrones
    /\ deliveries \in SimDeliveries
    /\ zones \in {<<>>, <<ZoneA(0, 10)>>}
    /\ current_time = 0
    /\ fp = NoCall
    /\ csp = CspInit
    /\ call = NoCall
    /\ ga_optimizer = NoOptimizer

NextSim == RunAStarOptimization \/ UpdateSimulation

SpecSim == InitSim /\ [][NextSim]_vars

\* ------------------------------------ the planner, the clock and Drone.reset
\* drone.reset() called on its own on drone i
CallReset(i) ==
    /\ drones' = [drones EXCEPT ![i] = Reset(drones[i])]
    /\ call' = [pc |-> "reset", drone |-> i, before |-> drones[i]]
    /\ UNCHANGED <<deliveries, zones, current_time, fp, csp, ga_optimizer>>

\* worlds of one or two drones and one or two deliveries
InitFleet ==
    /\ drones \in SimDrones
    /\ deliveries \in {ds \in SimDeliveries :
                         Len(ds) = 1 \/ (ds[2].priority = 5 /\ ds[2].time_window_start = 0)}
    /\ zones \in {<<>>, <<ZoneA(0, 10)>>}
    /\ current_time = 0
    /\ fp = NoCall
    /\ csp = CspInit
    /\ call = NoCall
    /\ ga_optimizer = NoOptimizer

NextFleet ==
    \/ RunAStarOptimization
    \/ UpdateSimulation
    \/ \E i \in 1..Len(drones) : CallReset(i)

SpecFleet == InitFleet /\ [][NextFleet]_vars

\* ------------------------------------------------------ loading scenarios
\* the entries a document may hold: sound ones, one with a key missing, ones
\* with a time that is no ISO text
DroneEntries ==
    {[id |-> "D1", max_weight |-> 10, battery_capacity |-> Real(1000), speed |-> 10,
      start_position |-> <<0, 0>>],
     [id |-> "D2", max_weight |-> 5, battery_capacity |-> Real(1000),
      start_position |-> <<6, 6>>]}
DeliveryEntries ==
    {[id |-> "X1", position |-> <<6, 0>>, weight |-> 1, priority |-> 1,
      time_window_start |-> IsoFormat(0), time_window_end |-> IsoFormat(60)],
     [id |-> "X2", position |-> <<0, 4>>, weight |-> 6, priority |-> 5,
      time_window_start |-> <<"soon">>, time_window_end |-> IsoFormat(60)],
     [id |-> "X3", position |-> <<0, 4>>, priority |-> 5,
      time_window_start |-> IsoFormat(0), time_window_end |-> IsoFormat(60)]}
ZoneEntries ==
    {[id |-> "Z", polygon_coordinates |-> << <<3, -1>>, <<3, 3>>, <<5, 3>>, <<5, -1>> >>,
      active_time_start |-> IsoFormat(0), active_time_end |-> IsoFormat(10)],
     [id |-> "Z2", polygon_coordinates |-> << <<3, -1>>, <<3, 3>>, <<5, 3>>, <<5, -1>> >>,
      active_time_start |-> IsoFormat(0), active_time_end |-> <<"never">>]}

\* the lists of at most n entries
ListsOf(entries, n) == UNION {[1..k -> entries] : k \in 0..n}

\* test_data.json: missing or unreadable, no JSON, or a JSON object
Documents ==
    {[kind |-> "unreadable"], [kind |-> "malformed"]}
    \cup {[kind |-> "json", data |-> [drones |-> ds, deliveries |-> xs]] :
            ds \in ListsOf(DroneEntries, 1), xs \in ListsOf(DeliveryEntries, 1)}
    \cup {[kind |-> "json", data |-> [drones |-> ds, deliveries |-> xs, no_fly_zones |-> zs]] :
            ds \in ListsOf(DroneEntries, MaxEntries),
            xs \in ListsOf(DeliveryEntries, MaxEntries),
            zs \in ListsOf(ZoneEntries, 1)}

\* the world before the first load: empty, or what add_drone, add_delivery
\* and add_zone have put there
InitLoad ==
    /\ drones \in {<<>>, <<Drone("D9", 10, Real(1000), 10, <<2, 2>>)>>}
    /\ deliveries \in {<<>>, <<Delivery("X9", <<4, 4>>, 1, 3, 0, 60)>>}
    /\ zones \in {<<>>, <<ZoneA(0, 10)>>}
    /\ current_time = 0
    /\ fp = NoCall
    /\ csp = CspInit
    /\ call = NoCall
    /\ ga_optimizer = NoOptimizer

NextLoad == \E doc \in Documents : LoadTestData(doc)

SpecLoad == InitLoad /\ [][NextLoad]_vars

\* -------------------------------------------- the planners called on their own
\* path = router.find_path(drone.current_position, delivery.position, ...)
CallFindPathTo(i, j) ==
    /\ call.pc = "none"
    /\ call' = [pc |-> "find_path", drone |-> i, delivery |-> j,
                result |-> FindPath(drones[i].current_position, deliveries[j].position,
                                    drones[i], zones, current_time)]
    /\ UNCHANGED <<drones, deliveries, zones, current_time, fp, csp, ga_optimizer>>

\* a sequencer call that writes its battery estimate back to the drone
CallOptimizeDeliverySequenceDebits(i) ==
    /\ call.pc = "none"
    /\ \E r \in {OptimizeDeliverySequence(drones[i], deliveries, zones, current_time)} :
          /\ call' = [pc |-> "sequence", drone |-> i, result |-> r]
          /\ drones' = [drones EXCEPT ![i].current_battery = @ - Real(Len(r))]
    /\ UNCHANGED <<deliveries, zones, current_time, fp, csp, ga_optimizer>>

\* route_optimizer.optimize_delivery_sequence(drone, deliveries, zones, now)
CallOptimizeDeliverySequence(i) ==
    /\ call.pc = "none"
    /\ call' = [pc |-> "sequence", drone |-> i,
                result |-> OptimizeDeliverySequence(drones[i], deliveries, zones,
                                                    current_time)]
    /\ UNCHANGED <<drones, deliveries, zones, current_time, fp, csp, ga_optimizer>>

\* csp_optimizer.optimize(drones, deliveries); only the optimizer object changes
CallOptimize ==
    /\ call.pc = "none"
    /\ \E r \in {Optimize(csp.self, drones, deliveries)} :
          /\ csp' = [self |-> r.self, result |-> r.result, runs |-> csp.runs + 1]
          /\ call' = [pc |-> "optimize", result |-> r.result]
    /\ UNCHANGED <<drones, deliveries, zones, current_time, fp, ga_optimizer>>

\* GAOptimizer(drones, deliveries, zones)._evaluate_fitness(individual)
CallEvaluateFitness(individual) ==
    /\ call.pc = "none"
    /\ call' = [pc |-> "fitness", individual |-> individual,
                result |-> EvaluateFitness(GAOptimizer(drones, deliveries, zones),
                                           individual)]
    /\ UNCHANGED <<drones, deliveries, zones, current_time, fp, csp, ga_optimizer>>

\* the deliveries a planner scenario is made of: two of weight 6 at three grid
\* steps from (0, 0) with priorities 1 and 5, one whose window opens at the
\* first tick, one whose window is the single instant 0
PlanDeliveries ==
    {Delivery("X1", <<6, 0>>, 6, 1, 0, 60),
     Delivery("X2", <<0, 6>>, 6, 5, 0, 60),
     Delivery("X3", <<2, 2>>, 1, 1, TickMinutes, 60),
     Delivery("X4", <<2, 0>>, 1, 1, 0, 0)}

\* the lists of at most n different deliveries, in every order
PlanDeliveryLists(n) ==
    {ds \in UNION {[1..k -> PlanDeliveries] : k \in 0..n} :
        \A a, b \in 1..Len(ds) : a # b => ds[a] # ds[b]}

\* one drone with a battery for three grid steps or plenty, alone or with a
\* second, smaller one
PlanDrones ==
    LET firsts == {Drone("D1", 10, Real(3), 1, <<0, 0>>),
                   Drone("D1", 10, Real(1000), 10, <<0, 0>>)}
        second == Drone("D2", 5, Real(1000), 10, <<6, 6>>)
    IN {<<d>> : d \in firsts} \cup {<<d, second>> : d \in firsts}

InitPlanners ==
    /\ drones \in PlanDrones
    /\ deliveries \in PlanDeliveryLists(MaxDeliveries)
    /\ zones \in {<<>>, <<ZoneA(0, 10)>>}
    /\ current_time \in {0, TickMinutes}
    /\ fp = NoCall
    /\ csp = CspInit
    /\ call = NoCall
    /\ ga_optimizer = NoOptimizer

NextPlanners ==
    \/ \E i \in 1..Len(drones), j \in 1..Len(deliveries) : CallFindPathTo(i, j)
    \/ \E i \in 1..Len(drones) : CallOptimizeDeliverySequence(i)
    \/ CallOptimize
    \/ \E individual \in [1..Len(deliveries) -> {drones[j].id : j \in 1..Len(drones)}] :
          CallEvaluateFitness(individual)

SpecPlanners == InitPlanners /\ [][NextPlanners]_vars

\* ------------------------------------ entities written out and read back
\* from_dict(to_dict(e)) for every drone, delivery and zone of the world
CallRoundTrip ==
    /\ call' = [pc |-> "round_trip",
                drones |-> [i \in 1..Len(drones) |-> DroneFromDict(DroneToDict(drones[i]))],
                deliveries |-> [i \in 1..Len(deliveries) |->
                                  DeliveryFromDict(DeliveryToDict(deliveries[i]))],
                zones |-> [i \in 1..Len(zones) |-> ZoneFromDict(ZoneToDict(zones[i]))]]
    /\ UNCHANGED <<drones, deliveries, zones, current_time, fp, csp, ga_optimizer>>

InitRoundTrip ==
    /\ drones \in {<<Drone("D1", 10, Real(1000), 10, <<0, 0>>)>>,
                   <<Drone("D1", 10, Real(1000), 10, <<0, 0>>),
                     Drone("D2", 5, Real(3), 1, <<6, 6>>)>>}
    /\ deliveries \in {ds \in SimDeliveries :
                         Len(ds) = 1 \/ (ds[2].priority = 5 /\ ds[2].time_window_start = 0)}
    /\ zones = <<ZoneA(0, 10)>>
    /\ current_time = 0
    /\ fp = NoCall
    /\ csp = CspInit
    /\ call = NoCall
    /\ ga_optimizer = NoOptimizer

\* the world moves by plans, ticks and delivery outcomes until it is written out
NextRoundTrip ==
    /\ call.pc = "none"
    /\ \/ RunAStarOptimization
       \/ UpdateSimulation
       \/ \E i \in 1..Len(deliveries) : CallCompleteDelivery(i, current_time)
       \/ \E i \in 1..Len(deliveries) : CallFailDelivery(i)
       \/ CallRoundTrip

SpecRoundTrip == InitRoundTrip /\ [][NextRoundTrip]_vars

\* ------------------------------------------ the search of the CSP planner
\* a CSPOptimizer() as the constructor leaves it, or one on which the caller
\* has bound the attributes drones and deliveries that _weight_constraint reads
OptimizerObject(bound) ==
    IF bound
    THEN [domains |-> CSPOptimizer.domains, constraints |-> CSPOptimizer.constraints,
          drones |-> drones, deliveries |-> deliveries]
    ELSE CSPOptimizer

\* optimizer.optimize(drones, deliveries) on such an object; the call record
\* keeps the outcome and the dict the search worked on
CallOptimizeOn(bound) ==
    /\ call.pc = "none"
    /\ \E r \in {Optimize(OptimizerObject(bound), drones, deliveries)} :
          call' = [pc |-> "search", bound |-> bound, result |-> r.result,
                   assignment |-> r.assignment]
    /\ UNCHANGED <<drones, deliveries, zones, current_time, fp, csp, ga_optimizer>>

NextSearch == \E bound \in BOOLEAN : CallOptimizeOn(bound)

SpecSearch == InitCsp /\ [][NextSearch]_vars

\* ------------------------------------- the GA planner in a world that changes
\* the drone and the delivery that the forms add next
DroneForm == Drone(DroneIds[Len(drones) + 1], 10, Real(1000), 10, <<0, 0>>)
DeliveryForm == Delivery(DeliveryIds[Len(deliveries) + 1], <<2, 2>>, 1, 3, 0, 60)

\* a test_data.json with two drones and two deliveries of its own
GaDocument ==
    [kind |-> "json",
     data |-> [drones |-> <<[id |-> "D5", max_weight |-> 10, battery_capacity |-> Real(1000),
                            speed |-> 10, start_position |-> <<0, 0>>],
                           [id |-> "D6", max_weight |-> 10, battery_capacity |-> Real(1000),
                            speed |-> 10, start_position |-> <<6, 6>>]>>,
               deliveries |-> <<[id |-> "X5", position |-> <<6, 0>>, weight |-> 1,
                                 priority |-> 1, time_window_start |-> IsoFormat(0),
                                 time_window_end |-> IsoFormat(60)],
                                [id |-> "X6", position |-> <<0, 4>>, weight |-> 1,
                                 priority |-> 5, time_window_start |-> IsoFormat(0),
                                 time_window_end |-> IsoFormat(60)]>>,
               no_fly_zones |-> <<>>]]

\* the world as DeliverySystemGUI.__init__ leaves it
InitGa ==
    /\ drones = <<>>
    /\ deliveries = <<>>
    /\ zones = <<>>
    /\ current_time = 0
    /\ fp = NoCall
    /\ csp = CspInit
    /\ call = NoCall
    /\ ga_optimizer = NoOptimizer

NextGa ==
    \/ AddDrone(DroneForm)
    \/ AddDelivery(DeliveryForm)
    \/ ClearAllData
    \/ LoadTestData(GaDocument)
    \/ RunGaOptimization

SpecGa == InitGa /\ [][NextGa]_vars

\* ---------------------------------------------------- claims about find_path
Abs(n) == IF n < 0 THEN -n ELSE n

\* one grid step in x and/or y
Adjacent(p, q) ==
    /\ Abs(q[1] - p[1]) \in {0, Coord(resolution)}
    /\ Abs(q[2] - p[2]) \in {0, Coord(resolution)}
    /\ p # q

\* C1: a non-empty result of find_path begins with start, and each consecutive
\* pair of its points is one grid step apart in x and/or y.
C1_PathStartsAtStartAndSteps ==
    (fp.pc = "done" /\ fp.path # <<>>) =>
        /\ fp.path[1] = fp.start
        /\ \A i \in 1..(Len(fp.path) - 1) : Adjacent(fp.path[i], fp.path[i + 1])

\* a returned path of several steps, one of them diagonal
C1_Witness ==
    /\ fp.pc = "done"
    /\ Len(fp.path) >= 3
    /\ \E i \in 1..(Len(fp.path) - 1) :
          fp.path[i][1] # fp.path[i + 1][1] /\ fp.path[i][2] # fp.path[i + 1][2]

\* The lattice points of the grid that whole grid steps from start reach.
Lattice(start) ==
    {p \in (0..(Coord(GridSize) - 1)) \X (0..(Coord(GridSize) - 1)) :
        /\ (p[1] - start[1]) % Coord(resolution) = 0
        /\ (p[2] - start[2]) % Coord(resolution) = 0}

\* One round of relaxation of the least running cost of a lattice path from
\* start that enters no active zone and stays within the battery; Inf: none.
RelaxOnce(cost, drone, zs, now) ==
    [p \in DOMAIN cost |->
        LET pen == CalculateZonePenalty(p, zs, now)
            via == {cost[q] + Heuristic(q, p) + pen :
                      q \in {r \in DOMAIN cost : Adjacent(r, p) /\ cost[r] # Inf}}
            ok == {c \in via : HasSufficientBattery(drone, c)}
            old == IF cost[p] = Inf THEN {} ELSE {cost[p]}
            all == IF pen = Inf THEN old ELSE old \cup ok
        IN IF all = {} THEN Inf ELSE CHOOSE c \in all : \A d \in all : c <= d]

RECURSIVE RelaxAll(_, _, _, _)
RelaxAll(cost, drone, zs, now) ==
    LET next == RelaxOnce(cost, drone, zs, now)
    IN IF next = cost THEN cost ELSE RelaxAll(next, drone, zs, now)

LeastCost(start, drone, zs, now) ==
    RelaxAll([p \in Lattice(start) \cup {start} |-> IF p = start THEN 0 ELSE Inf],
             drone, zs, now)

\* some feasible lattice path from start ends within one resolution of goal
Feasible(start, goal, drone, zs, now) ==
    LET cost == LeastCost(start, drone, zs, now)
    IN \E p \in DOMAIN cost : cost[p] # Inf /\ Heuristic(p, goal) < Real(resolution)

\* C2: find_path returns a non-empty path ending within one resolution of goal
\* whenever a feasible lattice path to such a point exists (the goal need not
\* be a lattice point), and the empty sequence exactly when none exists.
C2_PathIffFeasible ==
    fp.pc = "done" =>
        IF Feasible(fp.start, fp.goal, drones[1], zones, current_time)
        THEN /\ fp.path # <<>>
             /\ Heuristic(fp.path[Len(fp.path)], fp.goal) < Real(resolution)
        ELSE fp.path = <<>>

\* the cost of a path: over its edges u to v, distance(u, v) + zone_penalty(v, now)
RECURSIVE PathCost(_, _, _, _)
PathCost(path, i, zs, now) ==
    IF i >= Len(path) THEN 0
    ELSE Heuristic(path[i], path[i + 1]) + CalculateZonePenalty(path[i + 1], zs, now)
            + PathCost(path, i + 1, zs, now)

\* C22: a non-empty path returned by find_path ends at goal and its cost is the
\* least cost of an in-bounds lattice path from start to goal that enters no
\* active zone and stays within the drone's battery.
C22_PathHasLeastCost ==
    (fp.pc = "done" /\ fp.path # <<>>) =>
        /\ fp.path[Len(fp.path)] = fp.goal
        /\ PathCost(fp.path, 1, zones, current_time)
             = LeastCost(fp.start, drones[1], zones, current_time)[fp.goal]

\* a path was returned that starts outside the active zone, runs beside it and
\* pays its penalty
C22_Witness ==
    /\ fp.pc = "done"
    /\ Len(fp.path) >= 3
    /\ CalculateZonePenalty(fp.start, zones, current_time) # Inf
    /\ \E i \in 2..Len(fp.path) :
          CalculateZonePenalty(fp.path[i], zones, current_time) > 0

\* the zones that are active now
ActiveZones(zs, now) == SelectSeq(zs, LAMBDA z : IsActive(z, now))

\* C3: no point of a returned path, its first point included, lies strictly
\* inside a zone that is active now; a zone that is not active excludes nothing.
C3_NoPointInsideActiveZone ==
    fp.pc = "done" =>
        /\ \A i \in 1..Len(fp.path) : \A k \in 1..Len(zones) :
              IsActive(zones[k], current_time) => ~ContainsPoint(zones[k], fp.path[i])
        /\ fp.path = FindPath(fp.start, fp.goal, drones[1],
                              ActiveZones(zones, current_time), current_time)

\* -------------------------------------------------- claims about the CSP solver
RECURSIVE SumWeights(_, _)
SumWeights(dels, idx) ==
    IF idx = {} THEN 0
    ELSE LET i == CHOOSE i \in idx : TRUE
         IN dels[i].weight + SumWeights(dels, idx \ {i})

\* m, a drone position for every delivery position, overloads no drone
RespectsCapacity(m) ==
    \A j \in 1..Len(drones) :
        SumWeights(deliveries, {i \in 1..Len(deliveries) : m[i] = j}) <= drones[j].max_weight

SomeAssignmentFits ==
    \E m \in [1..Len(deliveries) -> 1..Len(drones)] : RespectsCapacity(m)

\* C4: optimize always ends with a value and never with a fault; with at least
\* one drone and one delivery the value is a mapping when an assignment within
\* the capacities exists and the absent result when none does.
C4_OptimizeReturnsValue ==
    csp.result.kind # "not_run" =>
        /\ csp.result.kind # "fault"
        /\ (Len(drones) >= 1 /\ Len(deliveries) >= 1) =>
              csp.result.kind = (IF SomeAssignmentFits THEN "mapping" ELSE "none")

C6_BatteryWithinBounds ==
    \A i \in 1..Len(drones) :
        /\ 0 <= drones[i].current_battery
        /\ drones[i].current_battery <= drones[i].battery_capacity

\* C7: a tick moves each drone whose route has more than one element to the
\* next waypoint, debits the straight-line energy to it and drops the consumed
\* waypoint, so that the route is one shorter and begins at the new position;
\* a drone whose route has one element is left unchanged.
C7_TickConsumesWaypoint ==
    [][current_time' # current_time =>
         \A i \in 1..Len(drones) :
            LET d == drones[i]
                e == drones'[i]
            IN IF Len(d.route) > 1
               THEN /\ e.current_position = d.route[2]
                    /\ e.current_battery = d.current_battery
                          - Consumption(d, Heuristic(d.current_position, d.route[2]))
                    /\ e.route = Tail(d.route)
                    /\ e.route[1] = e.current_position
               ELSE e = d]_vars

\* C10: after every update_position and every tick, current_position is the
\* last element of route.
C10_PositionIsLastOfRoute ==
    \A i \in 1..Len(drones) :
        drones[i].current_position = drones[i].route[Len(drones[i].route)]

\* a tick has moved a drone along a committed route of several points
C10_Witness ==
    /\ current_time > 0
    /\ \E i \in 1..Len(drones) :
          /\ Len(drones[i].route) > 2
          /\ drones[i].route[1] # drones[i].start_position
          /\ drones[i].current_battery < drones[i].battery_capacity

\* the energy of a route flown segment by segment
RECURSIVE RouteEnergy(_, _, _)
RouteEnergy(drone, route, i) ==
    IF i >= Len(route) THEN 0
    ELSE Consumption(drone, Heuristic(route[i], route[i + 1]))
           + RouteEnergy(drone, route, i + 1)

\* C19: run_astar_optimization debits a drone by exactly the energy of the
\* length of the legs it commits: after it, capacity minus current_battery is
\* the energy of the committed route, segment by segment.
C19_CommitDebitsPathEnergy ==
    [][current_time' = current_time =>
         \A i \in 1..Len(drones) :
            drones'[i].current_battery
               = drones'[i].battery_capacity
                   - RouteEnergy(drones'[i], drones'[i].route, 1)]_vars

\* C11 as stated: after a route commit or after a tick that moved the drone,
\* route[0] is not current_position.
C11_RouteHeadNeverPosition ==
    [][\A i \in 1..Len(drones) :
         drones'[i] # drones[i] =>
            drones'[i].route[1] # drones'[i].current_position]_vars

\* C11 amended: after a tick that moved the drone, route[0] is the drone's
\* current_position (the tick drops the old head, so the route begins at the
\* waypoint just reached); after run_astar_optimization, route[0] is
\* start_position.
C11_RouteHeadAfterTickAndCommit ==
    [][\A i \in 1..Len(drones) :
         LET d == drones[i]
             e == drones'[i]
         IN /\ (current_time' # current_time /\ Len(d.route) > 1) =>
                  (e.route[1] = e.current_position /\ e.route[1] = d.route[2])
            /\ current_time' = current_time => e.route[1] = e.start_position]_vars

\* a tick has moved a drone off its start: the head of its route is where it is
C11_Witness ==
    \E i \in 1..Len(drones) :
        /\ Len(drones[i].route) > 1
        /\ drones[i].route[1] # drones[i].start_position
        /\ drones[i].route[1] = drones[i].current_position

\* C12: reset, from whatever state the drone is in, leaves
\* route = [start_position], current_position = start_position,
\* current_battery = battery_capacity and current_weight = 0, and a second
\* reset changes nothing.
C12_ResetRestoresStart ==
    [][\A i \in 1..Len(drones) :
         CallReset(i) =>
            LET e == drones'[i]
            IN /\ e.route = <<e.start_position>>
               /\ e.current_position = e.start_position
               /\ e.current_battery = e.battery_capacity
               /\ e.current_weight = 0
               /\ Reset(e) = e]_vars

\* a drone that had flown part of a committed route has been reset
C12_Witness ==
    /\ call.pc = "reset"
    /\ Len(call.before.route) > 2
    /\ call.before.current_position # call.before.start_position
    /\ call.before.current_battery < call.before.battery_capacity
    /\ drones[call.drone].route = <<drones[call.drone].start_position>>
    /\ drones[call.drone].current_battery = drones[call.drone].battery_capacity

\* C23: the route is a variant of the ticks: each tick that moves a drone
\* (route longer than one element) makes its route strictly shorter, and a
\* drone whose route has one element idles, position and battery unchanged;
\* so repeated ticks bring every committed route down to a single element.
C23_TickShortensRoute ==
    [][current_time' # current_time =>
         \A i \in 1..Len(drones) :
            IF Len(drones[i].route) > 1
            THEN Len(drones'[i].route) < Len(drones[i].route)
            ELSE /\ drones'[i].current_position = drones[i].current_position
                 /\ drones'[i].current_battery = drones[i].current_battery]_vars

\* the deliveries (positions in the list) that drone i routes and assigns in a
\* run of run_astar_optimization: its pass over the list with every link cleared
ServedBy(i) ==
    LET cleared == [j \in 1..Len(deliveries) |->
                      [deliveries[j] EXCEPT !.assigned_drone = None, !.status = "pending"]]
        w == AStarDrone(drones[i], cleared, zones, current_time)
    IN {j \in 1..Len(deliveries) : w.deliveries[j].assigned_drone = drones[i].id}

\* C24: in a run of run_astar_optimization every delivery is routed by at most
\* one drone, and a delivery that ends assigned names the only drone whose
\* committed route was extended to it.
C24_ServedByAtMostOneDrone ==
    [][current_time' = current_time =>
         \A j \in 1..Len(deliveries) :
            LET servers == {i \in 1..Len(drones) : j \in ServedBy(i)}
            IN /\ Cardinality(servers) <= 1
               /\ deliveries'[j].assigned_drone # None =>
                     servers = {IndexOfId(drones, deliveries'[j].assigned_drone)}]_vars

\* -------------------------------------------------- claims about loading
\* C13: when a load fails, drones, deliveries and zones are exactly what they
\* were before the load was attempted.
C13_FailedLoadLeavesWorld ==
    (call.pc = "load" /\ call.message = "Error") =>
        <<drones, deliveries, zones>> = call.before

\* ---------------------------------------------- claims about the sequencer
\* C14: the list returned by optimize_delivery_sequence is in nondecreasing
\* (priority, time_window_start) order, deliveries of equal keys in their
\* input order.
C14_SequenceInKeyOrder ==
    call.pc = "sequence" =>
        \A a, b \in 1..Len(call.result) :
            a < b =>
                LET x == deliveries[call.result[a]]
                    y == deliveries[call.result[b]]
                IN \/ x.priority < y.priority
                   \/ x.priority = y.priority /\ x.time_window_start < y.time_window_start
                   \/ /\ x.priority = y.priority
                      /\ x.time_window_start = y.time_window_start
                      /\ call.result[a] < call.result[b]

\* the priority-1 delivery is returned before the priority-5 delivery at the
\* same distance that stood before it in the input
C14_Witness ==
    /\ call.pc = "sequence"
    /\ \E a, b \in 1..Len(call.result) :
          /\ a < b
          /\ call.result[a] > call.result[b]
          /\ deliveries[call.result[a]].priority = 1
          /\ deliveries[call.result[b]].priority = 5
          /\ Heuristic(drones[call.drone].current_position,
                       deliveries[call.result[a]].position)
               = Heuristic(drones[call.drone].current_position,
                           deliveries[call.result[b]].position)

\* delivery i, taken first, passes every test of the sequencer but the window
\* test: a path to it exists, the drone can carry it and has the battery
AcceptableFirst(drone, d, zs, now) ==
    LET path == FindPath(drone.current_position, d.position, drone, zs, now)
    IN /\ path # <<>>
       /\ CanCarry(drone, d.weight)
       /\ HasSufficientBattery(drone, TotalDistance(path, 1))

\* C15: optimize_delivery_sequence returns no delivery whose closed window
\* does not hold now; and now on a bound of the window is inside it: when some
\* delivery with now in its closed window is acceptable as the first stop, the
\* returned list is not empty.
C15_SequenceWithinWindows ==
    call.pc = "sequence" =>
        /\ \A k \in 1..Len(call.result) :
              /\ deliveries[call.result[k]].time_window_start <= current_time
              /\ current_time <= deliveries[call.result[k]].time_window_end
        /\ (\E i \in 1..Len(deliveries) :
              /\ deliveries[i].time_window_start <= current_time
              /\ current_time <= deliveries[i].time_window_end
              /\ AcceptableFirst(drones[call.drone], deliveries[i], zones, current_time))
           => call.result # <<>>

\* a delivery whose window begins and ends now has been returned, while
\* another delivery was out of its window
C15_Witness ==
    /\ call.pc = "sequence"
    /\ \E k \in 1..Len(call.result) :
          /\ deliveries[call.result[k]].time_window_start = current_time
          /\ deliveries[call.result[k]].time_window_end = current_time
    /\ \E i \in 1..Len(deliveries) : current_time < deliveries[i].time_window_start

\* the length of the path of leg k of the itinerary seq
LegLength(drone, dels, seq, k, zs, now) ==
    TotalDistance(FindPath(IF k = 1 THEN drone.current_position
                           ELSE dels[seq[k - 1]].position,
                           dels[seq[k]].position, drone, zs, now), 1)

RECURSIVE SumLegLengths(_, _, _, _, _, _)
SumLegLengths(drone, dels, seq, n, zs, now) ==
    IF n = 0 THEN 0
    ELSE LegLength(drone, dels, seq, n, zs, now)
           + SumLegLengths(drone, dels, seq, n - 1, zs, now)

\* C16: every prefix of the returned itinerary is feasible: its summed
\* weights are at most max_weight, and the energy of its summed leg lengths
\* is at most the drone's battery at the time of the call.
C16_SequencePrefixFeasible ==
    call.pc = "sequence" =>
        \A n \in 1..Len(call.result) :
            /\ SumWeights(deliveries, {call.result[k] : k \in 1..n})
                  <= drones[call.drone].max_weight
            /\ HasSufficientBattery(drones[call.drone],
                                    SumLegLengths(drones[call.drone], deliveries,
                                                  call.result, n, zones, current_time))

\* ------------------------------------------------ claims about the GA score
\* the chromosome gives some drone more weight than it can carry
Overloads(individual) ==
    \E j \in 1..Len(drones) :
        SumWeights(deliveries, {k \in 1..Len(deliveries) : individual[k] = drones[j].id})
            > drones[j].max_weight

\* C17: _evaluate_fitness returns a score for every chromosome of valid drone
\* ids, with completed + violations equal to the number of deliveries; when
\* the chromosome overloads a drone the score holds at least one violation
\* and is below -900.
C17_FitnessScoresEveryChromosome ==
    call.pc = "fitness" =>
        /\ call.result.kind = "score"
        /\ call.result.completed + call.result.violations = Len(deliveries)
        /\ call.result.fitness
             = Fitness(call.result.completed, call.result.energy10, call.result.violations)
        /\ Overloads(call.individual) =>
              /\ call.result.violations >= 1
              /\ call.result.fitness < -900 * 100 * Scale

\* ------------------------------------------- claims about the planners' frame
\* C18: a call of find_path, optimize_delivery_sequence, CSPOptimizer.optimize
\* or _evaluate_fitness leaves every drone and every delivery as it was,
\* whether the call succeeds or fails.
C18_PlannersLeaveWorld ==
    [][call' # call => (drones' = drones /\ deliveries' = deliveries)]_vars

\* a planner has failed, or has returned a plan, over drones and deliveries
\* that are as they were created
C18_Witness ==
    /\ \/ call.pc = "optimize" /\ call.result.kind = "fault"
       \/ call.pc = "sequence" /\ Len(call.result) >= 2
       \/ call.pc = "find_path" /\ call.result = <<>>
       \/ call.pc = "fitness" /\ call.result.kind = "fault"
    /\ \A i \in 1..Len(drones) :
          drones[i] = Drone(drones[i].id, drones[i].max_weight, drones[i].battery_capacity,
                            drones[i].speed, drones[i].start_position)
    /\ \A j \in 1..Len(deliveries) :
          deliveries[j].status = "pending" /\ deliveries[j].assigned_drone = None

\* -------------------------------------------- claims about serialisation
\* C20: from_dict(to_dict(e)) is equal to e, field by field, for every drone,
\* delivery and zone in any state its operations reach.
C20_RoundTripIsIdentity ==
    call.pc = "round_trip" =>
        /\ call.drones = drones
        /\ call.deliveries = deliveries
        /\ call.zones = zones

\* written out and read back: a drone under way on a route of several points,
\* a delivery with neither drone nor delivery time, and a completed delivery
C20_Witness ==
    /\ call.pc = "round_trip"
    /\ \E i \in 1..Len(drones) :
          Len(drones[i].route) > 2 /\ drones[i].current_position # drones[i].start_position
    /\ \E j \in 1..Len(deliveries) :
          deliveries[j].assigned_drone = None /\ deliveries[j].actual_delivery_time = NoTime
    /\ \E j \in 1..Len(deliveries) :
          deliveries[j].status = "completed" /\ deliveries[j].actual_delivery_time # NoTime
    /\ Len(zones) >= 1

\* -------------------------------------------- claims about the search order
\* m and n give a drone position to every delivery position; m comes before n
\* in lexicographic order
LexLess(m, n) ==
    \E i \in 1..Len(deliveries) :
        /\ m[i] < n[i]
        /\ \A j \in 1..(i - 1) : m[j] = n[j]

\* the total assignments, as drone positions, that overload no drone
FittingAssignments ==
    {m \in [1..Len(deliveries) -> 1..Len(drones)] : RespectsCapacity(m)}

\* the mapping read as drone positions per delivery position
AsPositions(map) ==
    [i \in 1..Len(deliveries) |-> IndexOfId(drones, map[deliveries[i].id])]

DroneIdsOf(drs) == {drs[j].id : j \in 1..Len(drs)}

\* C25: every run of run_ga_optimization works on chromosomes with one gene
\* per delivery now in the world, each gene the id of a drone now in the world,
\* whatever was added, cleared or loaded since an earlier run; and a run that
\* returns leaves every delivery of the world assigned to a drone of the world.
C25_ChromosomesFitTheWorld ==
    [][RunGaOptimization =>
         /\ ga_optimizer'.n = Len(deliveries')
         /\ ga_optimizer'.n > 0 =>
               {ga_optimizer'.attr_drone[j] : j \in 1..Len(ga_optimizer'.attr_drone)}
                  \subseteq DroneIdsOf(drones')
         /\ call'.kind = "returned" =>
               \A j \in 1..Len(deliveries') :
                  deliveries'[j].assigned_drone \in DroneIdsOf(drones')]_vars

\* ------------------------------------------ claims about the delivery lifecycle
\* C8 as stated: fail_delivery returns an in_progress delivery to pending and
\* clears assigned_drone, and the only status changes are pending to
\* in_progress, in_progress to completed and in_progress to pending.
C8_FailReturnsToPending ==
    [][\A i \in 1..Len(deliveries) :
         LET d == deliveries[i]
             e == deliveries'[i]
         IN /\ (CallFailDelivery(i) /\ d.status = "in_progress") =>
                  (e.status = "pending" /\ e.assigned_drone = None)
            /\ d.status # e.status =>
                  <<d.status, e.status>> \in {<<"pending", "in_progress">>,
                                              <<"in_progress", "completed">>,
                                              <<"in_progress", "pending">>}]_vars

\* C8 amended: fail_delivery sets the status to failed and clears
\* assigned_drone, from in_progress as from any other status; a status changes
\* only by assign_to_drone (to in_progress), by complete_delivery (to
\* completed) or by fail_delivery (to failed), whatever the status before.
C8_FailMarksFailed ==
    [][\A i \in 1..Len(deliveries) :
         LET d == deliveries[i]
             e == deliveries'[i]
         IN /\ CallFailDelivery(i) => (e.status = "failed" /\ e.assigned_drone = None)
            /\ d.status # e.status =>
                  \/ e.status = "in_progress"
                        /\ \E j \in 1..Len(drones) : CallAssignToDrone(i, drones[j].id)
                  \/ e.status = "completed"
                        /\ \E t \in DeliveryTimes : CallCompleteDelivery(i, t)
                  \/ e.status = "failed" /\ CallFailDelivery(i)]_vars

\* a delivery that has failed, with no drone, beside one that is in progress
C8_Witness ==
    \E i, k \in 1..Len(deliveries) :
        /\ deliveries[i].status = "failed" /\ deliveries[i].assigned_drone = None
        /\ deliveries[k].status = "in_progress"

\* C9: after any assign_to_drone, complete_delivery and fail_delivery calls on
\* a delivery created pending, completed implies that actual_delivery_time and
\* assigned_drone are set, and pending implies that assigned_drone is unset.
C9_StatusInvariant ==
    \A i \in 1..Len(deliveries) :
        /\ deliveries[i].status = "completed" =>
              (deliveries[i].actual_delivery_time # NoTime
                 /\ deliveries[i].assigned_drone # None)
        /\ deliveries[i].status = "pending" => deliveries[i].assigned_drone = None

====
